---------------------------- MODULE Spec2Model ----------------------------
(***************************************************************************)
(* Model of the dashboard-aggregator process (src/src/configuration.js and *)
(* src/src/index.js): loading of the configuration module, the startup     *)
(* sequence of index.js (database client, the four feeds, app.listen), the *)
(* asynchronous completion of the feeds' pulls and schedules, and the      *)
(* request handlers GET /healthz, GET /users/:username, GET / and          *)
(* GET /feeds.                                                             *)
(*                                                                         *)
(* JavaScript runs each synchronous stretch of code to completion, so an   *)
(* action is one such stretch: the code from one suspension point (an      *)
(* await on a promise that needs I/O) to the next.                         *)
(***************************************************************************)
EXTENDS Naturals, Integers, Sequences, FiniteSets, TLC

\* ------------------------------------------------------------------ bounds
\* Longest listing an upstream feed returns.
MaxItems == 2
\* Largest caller-supplied limit besides the default.
MaxLimit == 1
\* Settings that may be missing (undefined or null) in one configuration.
MaxAbsent == 1

\* index.js:124,194,228  validateLimit(...) ?? 10
DefaultLimit == 10

\* --------------------------------------------------------- configuration.js
\* Every key configuration.js reads, with config.get or validateConfigSetting.
Settings ==
    { "db.user", "db.password", "db.host", "db.port", "db.database",
      "listen_port", "permissions.uri", "permissions.public_group",
      "apps.favorites_group_index", "apps.url",
      "logging.level", "logging.label",
      "website.url", "website.feeds.news", "website.feeds.events",
      "videos.url", "app-exposer.url", "app-exposer.user",
      "metadata.url", "metadata.featured_apps_attr",
      "metadata.featured_apps_value" }

\* The calls of validate(), in order (configuration.js:22-33).
ValidatedSettings ==
    << "db.user", "db.password", "db.host", "db.port", "db.database",
       "listen_port", "permissions.uri", "permissions.public_group",
       "apps.favorites_group_index", "apps.url" >>

\* The export statements in order: <<exported name, key read by config.get>>
\* (configuration.js:42-154).
ExportStatements ==
    << <<"dbUser", "db.user">>, <<"dbPass", "db.password">>,
       <<"dbHost", "db.host">>, <<"dbPort", "db.port">>,
       <<"dbDatabase", "db.database">>, <<"logLevel", "logging.level">>,
       <<"logLabel", "logging.label">>, <<"listenPort", "listen_port">>,
       <<"permissionsURL", "permissions.uri">>,
       <<"publicGroup", "permissions.public_group">>,
       <<"websiteURL", "website.url">>,
       <<"newsFeedPath", "website.feeds.news">>,
       <<"eventsFeedPath", "website.feeds.events">>,
       <<"videosURL", "videos.url">>,
       <<"appExposerURL", "app-exposer.url">>,
       <<"appExposerUser", "app-exposer.user">>,
       <<"favoritesGroupIndex", "apps.favorites_group_index">>,
       <<"appsURL", "apps.url">>, <<"metadataURL", "metadata.url">>,
       <<"featuredAppsAttr", "metadata.featured_apps_attr">>,
       <<"featuredAppsValue", "metadata.featured_apps_value">> >>

\* ------------------------------------------------------------------ feeds
\* The feeds createFeeds reads (index.js:81-83).
Feeds == {"news", "events", "videos"}
\* The feeds index.js constructs (index.js:52-68).
AllFeeds == Feeds \cup {"instantLaunches"}

\* n items in descending publishedAt order: <<n, n-1, ..., 1>>.
Desc(n) == [i \in 1..n |-> n + 1 - i]
\* What one fetch of an upstream listing can return.
FetchResults == {Desc(n) : n \in 0..MaxItems}

VARIABLES
    cfg,          \* the configuration files: key -> "undef" | "null" | "set"
    phase,        \* "init" | "configFailed" | "loaded" | "running"
    configError,  \* the key whose check or read threw, or "none"
    exported,     \* names configuration.js has exported so far
    dbCreated,    \* new Client(...) was evaluated (index.js:41)
    constructed,  \* feeds constructed by index.js
    listening,    \* app.listen was called (index.js:246)
    pull,         \* initial pullItems(): "idle" | "pending" | "ok" | "failed"
    items,        \* each feed's cached item list
    sched,        \* scheduleRefresh().then(start): "none" | "pending" | "started" | "rejected"
    req           \* the request being handled

vars == << cfg, phase, configError, exported, dbCreated, constructed,
           listening, pull, items, sched, req >>

configVars == << configError, exported >>
feedVars == << pull, items, sched >>
startupVars == << dbCreated, constructed, listening >>


\* --------------------------------------------------------- configuration.js
\* config.has(name) of the config package: the key is defined (a null value
\* is a defined value).
ConfigHas(name) == cfg[name] # "undef"

\* config.get(name) of the config package throws for an undefined key and
\* returns the value, null included, otherwise.
ConfigGetThrows(name) == cfg[name] = "undef"

\* validateConfigSetting(name) throws (configuration.js:14-16).
ValidateConfigSettingThrows(name) == ~ConfigHas(name) \/ cfg[name] = "null"

\* validate(): the position in ValidatedSettings of the first call that
\* throws, 0 when none does (configuration.js:22-33).
Validate ==
    LET bad == {i \in DOMAIN ValidatedSettings :
                    ValidateConfigSettingThrows(ValidatedSettings[i])}
    IN  IF bad = {} THEN 0 ELSE CHOOSE i \in bad : \A j \in bad : i <= j

\* The position of the first export statement whose config.get throws, 0
\* when none does (configuration.js:42-154).
FirstThrowingExport ==
    LET bad == {i \in DOMAIN ExportStatements :
                    ConfigGetThrows(ExportStatements[i][2])}
    IN  IF bad = {} THEN 0 ELSE CHOOSE i \in bad : \A j \in bad : i <= j

\* Evaluation of the configuration module, which index.js imports before its
\* own body runs: validate(), then the export statements top to bottom.  A
\* throw ends the evaluation, and with it the process.
LoadConfiguration ==
    /\ phase = "init"
    /\ IF Validate # 0
       THEN /\ configError' = ValidatedSettings[Validate]
            /\ exported' = {}
            /\ phase' = "configFailed"
       ELSE IF FirstThrowingExport # 0
       THEN /\ configError' = ExportStatements[FirstThrowingExport][2]
            /\ exported' = {ExportStatements[i][1] :
                               i \in 1..(FirstThrowingExport - 1)}
            /\ phase' = "configFailed"
       ELSE /\ configError' = "none"
            /\ exported' = {ExportStatements[i][1] : i \in DOMAIN ExportStatements}
            /\ phase' = "loaded"
    /\ UNCHANGED << cfg, startupVars, feedVars, req >>

\* ------------------------------------------------------- index.js: startup
\* Faulty variant of StartupPulls: the commented-out ilFeed.pullItems() restored.
StartupPullsWithInstantLaunches == AllFeeds

\* The feeds whose pullItems() the module body calls (index.js:55,61,65; the
\* call on ilFeed is commented out, index.js:69).
StartupPulls == Feeds

\* The feeds whose scheduleRefresh() the module body calls (index.js:56,62,66;
\* the call on ilFeed is commented out, index.js:70).
StartupSchedules == Feeds

\* Faulty variant of Startup: the news pull awaited at top level; the module body is
\* suspended there until that pull settles.
StartupAwaitingNewsPull ==
    /\ phase = "loaded"
    /\ phase' = "running"
    /\ dbCreated' = TRUE
    /\ constructed' = {"news"}
    /\ pull' = [pull EXCEPT !["news"] = "pending"]
    /\ UNCHANGED << cfg, configVars, listening, items, sched, req >>

\* The module body of index.js (lines 38-249), one synchronous run: create
\* and connect the database client, construct each feed, call pullItems()
\* and scheduleRefresh() without awaiting either, set up the routes and call
\* app.listen.
Startup ==
    /\ phase = "loaded"
    /\ phase' = "running"
    /\ dbCreated' = TRUE
    /\ constructed' = AllFeeds
    /\ pull' = [f \in AllFeeds |-> IF f \in StartupPulls THEN "pending" ELSE "idle"]
    /\ sched' = [f \in AllFeeds |-> IF f \in StartupSchedules THEN "pending" ELSE "none"]
    /\ listening' = TRUE
    /\ UNCHANGED << cfg, configVars, items, req >>

\* ------------------------------------------------ feed: pulls and schedules
\* The promise of a pullItems() call fulfils: the fetched listing replaces
\* the cached list.
PullSucceeds(f, fetched) ==
    /\ pull[f] = "pending"
    /\ pull' = [pull EXCEPT ![f] = "ok"]
    /\ items' = [items EXCEPT ![f] = fetched]
    /\ UNCHANGED << cfg, phase, configVars, startupVars, sched, req >>

\* The promise of a pullItems() call rejects: the cached list is untouched.
PullFails(f) ==
    /\ pull[f] = "pending"
    /\ pull' = [pull EXCEPT ![f] = "failed"]
    /\ UNCHANGED << cfg, phase, configVars, startupVars, items, sched, req >>

\* scheduleRefresh() fulfils and the .then callback calls start() on the
\* schedule (index.js:56,62,66).
ScheduleResolves(f) ==
    /\ sched[f] = "pending"
    /\ sched' = [sched EXCEPT ![f] = "started"]
    /\ UNCHANGED << cfg, phase, configVars, startupVars, pull, items, req >>

\* scheduleRefresh() rejects: the .then callback never runs.
ScheduleRejects(f) ==
    /\ sched[f] = "pending"
    /\ sched' = [sched EXCEPT ![f] = "rejected"]
    /\ UNCHANGED << cfg, phase, configVars, startupVars, pull, items, req >>

\* A tick of a started schedule whose refresh succeeds: the new listing
\* replaces the cached list in one step.  (A failed refresh changes nothing.)
Refresh(f, fetched) ==
    /\ sched[f] = "started"
    /\ items[f] # fetched
    /\ items' = [items EXCEPT ![f] = fetched]
    /\ UNCHANGED << cfg, phase, configVars, startupVars, pull, sched, req >>


\* ------------------------------------------------------ index.js: requests
\* The caller-supplied limits: 0 is an absent query parameter, -1 a value
\* validateLimit refuses.
QueryLimits == {-1, 0} \cup (1..MaxLimit)

\* validateLimit throws on a value it refuses.
ValidateLimitThrows(q) == q < 0

\* validateLimit(q) ?? 10 (index.js:124,194,228).
Limit(q) == IF q = 0 THEN DefaultLimit ELSE q

Min(a, b) == IF a < b THEN a ELSE b
Max(a, b) == IF a > b THEN a ELSE b

\* Faulty variant of Slice: the end index is inclusive.
SliceInclusive(s, start, end) ==
    LET n == Len(s)
        from == IF start < 0 THEN Max(n + start, 0) ELSE Min(start, n)
        to == IF end < 0 THEN Max(n + end, 0) ELSE Min(end + 1, n)
    IN  SubSeq(s, from + 1, to)

\* Array.prototype.slice(start, end) (index.js:86-88): a negative index counts
\* from the end, indices are clamped to the array, and the elements from
\* start up to but excluding end are kept.
Slice(s, start, end) ==
    LET n == Len(s)
        from == IF start < 0 THEN Max(n + start, 0) ELSE Min(start, n)
        to == IF end < 0 THEN Max(n + end, 0) ELSE Min(end, n)
    IN  SubSeq(s, from + 1, to)

NoItems == [f \in Feeds |-> <<>>]
NotRead == [st |-> "notread", v |-> <<>>]

\* The getItems() calls of createFeeds in order (index.js:81-83).
FeedOrder == <<"news", "events", "videos">>

\* The three sequential reads of createFeeds, where the getItems() of the
\* feeds in failing rejects: a rejected await throws, so the reads after it
\* are never made (index.js:80-83).
CreateFeedsReads(failing) ==
    LET bad == {i \in DOMAIN FeedOrder : FeedOrder[i] \in failing}
        stop == IF bad = {} THEN Len(FeedOrder) + 1
                ELSE CHOOSE i \in bad : \A j \in bad : i <= j
        pos(f) == CHOOSE i \in DOMAIN FeedOrder : FeedOrder[i] = f
    IN  [f \in Feeds |->
            IF pos(f) < stop THEN [st |-> "ok", v |-> items[f]]
            ELSE IF pos(f) = stop THEN [st |-> "rejected", v |-> <<>>]
            ELSE NotRead]

\* Faulty variant of CreateFeedsValue: one limit shared by the three feeds,
\* spent in the order news, events, videos.
CreateFeedsValueCombined(reads, limit) ==
    IF \E f \in Feeds : reads[f].st # "ok"
    THEN [st |-> "rejected", v |-> NoItems]
    ELSE LET n == Slice(reads["news"].v, 0, limit)
             e == Slice(reads["events"].v, 0, limit - Len(n))
             w == Slice(reads["videos"].v, 0, limit - Len(n) - Len(e))
         IN  [st |-> "ok", v |-> [f \in Feeds |->
                 IF f = "news" THEN n ELSE IF f = "events" THEN e ELSE w]]

\* What the promise of createFeeds(limit) settles to (index.js:78-94): the
\* try block has no catch, so a rejected read rejects the whole call.
CreateFeedsValue(reads, limit) ==
    IF \E f \in Feeds : reads[f].st # "ok"
    THEN [st |-> "rejected", v |-> NoItems]
    ELSE [st |-> "ok", v |-> [f \in Feeds |-> Slice(reads[f].v, 0, limit)]]

\* The awaits of each handler that can suspend it, in order.
Awaits(route) ==
    CASE route = "users" ->
            << "validateInterval", "publicAppIDs", "featuredAppIds",
               "recentlyAdded", "publicApps", "recentlyUsed",
               "popularFeatured", "recentAnalyses", "runningAnalyses",
               "instantLaunches", "feeds" >>
      [] route = "root" ->
            << "validateInterval", "feeds", "publicAppIDs",
               "featuredAppIds", "popularFeatured" >>
      [] route = "feeds" -> << "feeds" >>
      [] OTHER -> << >>

\* The calls a handler starts in the synchronous stretch after its k-th
\* await (index.js:121-168, 196-215, 229).
StartedIn(route, k) ==
    CASE route = "users" /\ k = 0 -> {"validateInterval"}
      [] route = "users" /\ k = 1 ->
            {"instantLaunches", "feeds", "recentAnalyses",
             "runningAnalyses", "publicAppIDs"}
      [] route = "users" /\ k = 2 ->
            {"recentlyAdded", "publicApps", "recentlyUsed", "featuredAppIds"}
      [] route = "users" /\ k = 3 -> {"popularFeatured"}
      [] route = "root" /\ k = 0 -> {"validateInterval"}
      [] route = "root" /\ k = 1 -> {"feeds"}
      [] route = "root" /\ k = 2 -> {"publicAppIDs"}
      [] route = "root" /\ k = 3 -> {"featuredAppIds"}
      [] route = "root" /\ k = 4 -> {"popularFeatured"}
      [] route = "feeds" /\ k = 0 -> {"feeds"}
      [] OTHER -> {}

\* The stretch in which the handler calls validateLimit (index.js:124,194,228).
ValidateLimitIn(route) == IF route = "users" THEN 1 ELSE 0

\* The keys of each handler's 200 payload (index.js:170-183, 207-218, 231-233).
PayloadKeys(route) ==
    CASE route = "users" -> {"apps", "analyses", "instantLaunches", "feeds"}
      [] route = "root" -> {"apps", "feeds"}
      [] OTHER -> {"feeds"}

\* The description of the error a failed source throws.
Message(source) == source \o " failed"

\* Faulty variant of Reason: the error is left out of the text.
ReasonWithoutError(route, e) ==
    IF route = "feeds" THEN << "error getting feeds: " >>
    ELSE << "error running query: " >>

\* The reason text of each handler's catch block (index.js:188,222,236):
\* `${e}` of an Error is "Error: " followed by its message.
Reason(route, e) ==
    CASE route = "users" ->
            << "error running query: ", "Error: ", Message(e) >>
      [] route = "root" -> << "error running query: ", Message(e) >>
      [] OTHER -> << "error getting feeds: ", Message(e) >>

EmptyReq ==
    [ route |-> "none", pc |-> "idle", k |-> 0, query |-> 0, limit |-> 0,
      failing |-> {}, reads |-> [f \in Feeds |-> NotRead],
      sawPending |-> {}, feeds |-> [st |-> "none", v |-> NoItems],
      ilRead |-> <<>>, ilOps |-> {}, rows |-> <<>>,
      started |-> {}, observed |-> {}, unhandled |-> "none",
      threw |-> "none", sent |-> 0, status |-> 0, text |-> <<>>,
      keys |-> {}, bodyFeeds |-> NoItems, bodyInstantLaunches |-> <<>> ]

\* The catch block of a handler, entered with the error r.threw
\* (index.js:186-189, 220-223, 234-237).
Catch(r) ==
    [r EXCEPT !.pc = "done", !.sent = @ + 1, !.status = 500,
              !.text = Reason(r.route, r.threw)]

\* Faulty variant of InstantLaunchesPayload: the limit applied to the
\* instant launches as it is to the feeds.
InstantLaunchesPayloadLimited(r) == Slice(r.ilRead, 0, r.limit)

\* The instantLaunches value of the payload (index.js:181).
InstantLaunchesPayload(r) == r.ilRead

\* res.status(200).json(retval) (index.js:185,219,231).
Respond200(r) ==
    [r EXCEPT !.pc = "done", !.sent = @ + 1, !.status = 200,
              !.keys = PayloadKeys(r.route), !.bodyFeeds = r.feeds.v,
              !.bodyInstantLaunches =
                  IF r.route = "users" THEN InstantLaunchesPayload(r) ELSE <<>>]

\* The synchronous stretch of a handler after its k-th await, where the
\* getItems() of the feeds in failing rejects.
RunStretch(r, k, failing) ==
    LET route == r.route
        new == StartedIn(route, k)
        validates == ValidateLimitIn(route) = k
        limit == IF validates THEN Limit(r.query) ELSE r.limit
        reads == CreateFeedsReads(failing)
        r1 == [r EXCEPT !.k = k, !.limit = limit, !.started = @ \cup new]
        r2 == IF "feeds" \in new
              THEN [r1 EXCEPT !.failing = failing, !.reads = reads,
                        !.sawPending = {f \in Feeds :
                            reads[f].st # "notread" /\ pull[f] = "pending"},
                        !.feeds = CreateFeedsValue(reads, limit)]
              ELSE r1
        r3 == IF "instantLaunches" \in new
              THEN [r2 EXCEPT !.ilOps = @ \cup {"getItems"}]
              ELSE r2
    IN  IF validates /\ ValidateLimitThrows(r.query)
        THEN Catch([r EXCEPT !.k = k, !.threw = "validateLimit"])
        ELSE IF k = Len(Awaits(route)) THEN Respond200(r3)
        ELSE [r3 EXCEPT !.pc = "await"]

\* The promise the suspended handler awaits.
Awaited == Awaits(req.route)[req.k + 1]

\* A request for GET /users/:username, GET / or GET /feeds arrives and its
\* handler runs to its first await.
Request(route, query, failing) ==
    /\ listening
    /\ req.route = "none"
    /\ "feeds" \notin StartedIn(route, 0) => failing = {}
    /\ req' = RunStretch([EmptyReq EXCEPT !.route = route, !.query = query],
                         0, failing)
    /\ UNCHANGED << cfg, phase, configVars, startupVars, feedVars >>

\* The awaited promise fulfils and the handler runs to its next await or to
\* its response.  The createFeeds promise settles as its reads decided;
\* ilFeed.getItems() fulfils with any listing.
AwaitResolves(il, failing) ==
    /\ req.route \in {"users", "root", "feeds"}
    /\ req.pc = "await"
    /\ Awaited = "feeds" => req.feeds.st = "ok"
    /\ Awaited # "instantLaunches" => il = <<>>
    /\ "feeds" \notin StartedIn(req.route, req.k + 1) => failing = {}
    /\ req' = RunStretch([req EXCEPT !.observed = @ \cup {Awaited},
                                     !.ilRead = IF Awaited = "instantLaunches"
                                                THEN il ELSE @],
                         req.k + 1, failing)
    /\ UNCHANGED << cfg, phase, configVars, startupVars, feedVars >>

\* The awaited promise rejects: the await throws into the catch block.
AwaitRejects ==
    /\ req.route \in {"users", "root", "feeds"}
    /\ req.pc = "await"
    /\ Awaited = "feeds" => req.feeds.st = "rejected"
    /\ req' = Catch([req EXCEPT !.observed = @ \cup {Awaited},
                                !.threw = Awaited])
    /\ UNCHANGED << cfg, phase, configVars, startupVars, feedVars >>

\* A promise the handler started and never awaited rejects after the handler
\* has returned: no handler is attached to it.  req.unhandled keeps the
\* first such promise of the request.
AbandonedRejects(p) ==
    /\ req.pc = "done"
    /\ p \in req.started \ req.observed
    /\ req.unhandled = "none"
    /\ p = "feeds" => req.feeds.st = "rejected"
    /\ req' = [req EXCEPT !.unhandled = p]
    /\ UNCHANGED << cfg, phase, configVars, startupVars, feedVars >>

\* ------------------------------------------------------------ GET /healthz
\* What db.query can fulfil with: the rows of "select version ... limit 1".
QueryRows == { << >>, << "v1" >> }

\* GET /healthz arrives: the query is sent and the handler awaits it
\* (index.js:99-102).
HealthzRequest ==
    /\ listening
    /\ req.route = "none"
    /\ req' = [EmptyReq EXCEPT !.route = "healthz", !.pc = "await",
                               !.started = {"dbQuery"}]
    /\ UNCHANGED << cfg, phase, configVars, startupVars, feedVars >>

\* The handler after the await (index.js:104-109).  hasRows: the awaited
\* value has a rows property.  An empty array is truthy, so `!rows` is false
\* for it and rows[0].version throws a TypeError: the handler ends without
\* responding.
HealthzContinue(r, hasRows, rows) ==
    IF ~hasRows
    THEN [r EXCEPT !.pc = "done", !.sent = @ + 1, !.status = 500,
                   !.text = << "no rows returned from database" >>]
    ELSE IF Len(rows) = 0
    THEN [r EXCEPT !.pc = "threw", !.threw = "TypeError"]
    ELSE [r EXCEPT !.pc = "done", !.sent = @ + 1, !.status = 200,
                   !.text = << "version ", rows[1] >>]

\* The query fulfils with a result whose rows are `rows`.
HealthzQueryResolves(rows) ==
    /\ req.route = "healthz"
    /\ req.pc = "await"
    /\ req' = HealthzContinue([req EXCEPT !.observed = {"dbQuery"},
                                          !.rows = rows], TRUE, rows)
    /\ UNCHANGED << cfg, phase, configVars, startupVars, feedVars >>

\* The query rejects: the .catch callback logs the error and the await
\* yields what logger.error returned, the logger, which has no rows property
\* (index.js:102).
HealthzQueryRejects ==
    /\ req.route = "healthz"
    /\ req.pc = "await"
    /\ req' = HealthzContinue([req EXCEPT !.observed = {"dbQuery"},
                                          !.threw = "dbQuery"], FALSE, << >>)
    /\ UNCHANGED << cfg, phase, configVars, startupVars, feedVars >>

\* The connection of a finished request closes; the next request can be
\* looked at.
RequestDone ==
    /\ req.pc \in {"done", "threw"}
    /\ req' = EmptyReq
    /\ UNCHANGED << cfg, phase, configVars, startupVars, feedVars >>

\* ---------------------------------------------------------- specifications
AllSet == [s \in Settings |-> "set"]

InitRest ==
    /\ phase = "init"
    /\ configError = "none"
    /\ exported = {}
    /\ dbCreated = FALSE
    /\ constructed = {}
    /\ listening = FALSE
    /\ pull = [f \in AllFeeds |-> "idle"]
    /\ items = [f \in AllFeeds |-> << >>]
    /\ sched = [f \in AllFeeds |-> "none"]
    /\ req = EmptyReq

\* The process starts with a complete configuration.
Init == cfg = AllSet /\ InitRest

\* The process starts with a configuration in which up to MaxAbsent keys are
\* undefined or null.
InitAnyConfiguration ==
    /\ \E key \in [1..MaxAbsent -> Settings],
          state \in [1..MaxAbsent -> {"undef", "null", "set"}] :
          cfg = [s \in Settings |->
                    IF \E i \in 1..MaxAbsent : key[i] = s
                    THEN state[CHOOSE i \in 1..MaxAbsent : key[i] = s]
                    ELSE "set"]
    /\ InitRest

FeedStep ==
    \/ \E f \in AllFeeds, fetched \in FetchResults : PullSucceeds(f, fetched)
    \/ \E f \in AllFeeds : PullFails(f)

ScheduleStep ==
    \/ \E f \in AllFeeds : ScheduleResolves(f)
    \/ \E f \in AllFeeds : ScheduleRejects(f)
    \/ \E f \in AllFeeds, fetched \in FetchResults : Refresh(f, fetched)

RequestStep ==
    \/ \E route \in {"users", "root", "feeds"}, q \in QueryLimits,
          failing \in SUBSET Feeds : Request(route, q, failing)
    \/ \E il \in FetchResults, failing \in SUBSET Feeds : AwaitResolves(il, failing)
    \/ AwaitRejects
    \/ \E p \in {"publicAppIDs", "featuredAppIds", "recentlyAdded",
                 "publicApps", "recentlyUsed", "popularFeatured",
                 "recentAnalyses", "runningAnalyses", "instantLaunches",
                 "feeds"} : AbandonedRejects(p)
    \/ HealthzRequest
    \/ \E rows \in QueryRows : HealthzQueryResolves(rows)
    \/ HealthzQueryRejects
    \/ RequestDone

\* The whole process.
Next == LoadConfiguration \/ Startup \/ FeedStep \/ ScheduleStep \/ RequestStep
Spec == Init /\ [][Next]_vars

\* Configuration loading, startup and the initial pulls, from any
\* configuration.
NextConfig == LoadConfiguration \/ Startup \/ FeedStep
SpecConfig == InitAnyConfiguration /\ [][NextConfig]_vars

\* Startup and the feeds' pulls and schedules, with no request.
NextStartup == LoadConfiguration \/ Startup \/ FeedStep \/ ScheduleStep
SpecStartup == Init /\ [][NextStartup]_vars

\* Startup, the initial pulls and the request handlers.  No request handler
\* reads sched, and no schedule action reads req.
NextServe == LoadConfiguration \/ Startup \/ FeedStep \/ RequestStep
SpecServe == Init /\ [][NextServe]_vars


\* ------------------------------------------------------------------ claims
Completed(f) == pull[f] \in {"ok", "failed"}
Aggregating == req.route \in {"users", "root", "feeds"}
Elements(seq) == {seq[i] : i \in DOMAIN seq}

\* C1: no createFeeds call reads a feed whose initial pullItems() has not yet
\* completed: the initial pull of each feed is over before the server serves
\* a request that reads the feed.
C1_PullCompleteBeforeServing == req.sawPending = {}

\* C2: start() is called on the schedule of a feed only after the initial
\* pullItems() of that feed has completed.
C2_StartAfterInitialPull ==
    \A f \in Feeds : sched[f] = "started" => Completed(f)

\* C3: when the getItems() of exactly one feed rejects in createFeeds, the
\* call still returns a result: the other two feeds carry their truncated
\* items and the failed feed's section is empty.
C3_OneFailedReadIsIsolated ==
    \A f \in Feeds :
        (req.feeds.st # "none" /\ req.failing = {f}) =>
            /\ req.feeds.st = "ok"
            /\ req.feeds.v[f] = << >>
            /\ \A g \in Feeds \ {f} :
                  /\ req.reads[g].st = "ok"
                  /\ req.feeds.v[g] = SubSeq(req.reads[g].v, 1,
                                             Min(req.limit, Len(req.reads[g].v)))

\* C4: for a limit >= 1, createFeeds(limit) returns for each of news, events
\* and videos exactly the first min(limit, length) items that feed's
\* getItems() returned, in their order, whatever the other feeds hold.
C4_PerFeedLimit ==
    (req.feeds.st # "none" /\ req.failing = {} /\ req.limit >= 1) =>
        /\ req.feeds.st = "ok"
        /\ DOMAIN req.feeds.v = Feeds
        /\ \A f \in Feeds :
              /\ req.reads[f].st = "ok"
              /\ Len(req.feeds.v[f]) = Min(req.limit, Len(req.reads[f].v))
              /\ \A i \in 1..Len(req.feeds.v[f]) :
                    req.feeds.v[f][i] = req.reads[f].v[i]

\* A createFeeds call that cut one feed to the limit and returned another,
\* shorter than the limit, whole.
C4_Witness ==
    /\ req.feeds.st = "ok"
    /\ \E f, g \in Feeds :
          /\ Len(req.reads[f].v) > req.limit
          /\ Len(req.feeds.v[f]) = req.limit
          /\ Len(req.reads[g].v) < req.limit

\* The promise a suspended handler awaits settles, either way.
AwaitSettles ==
    \/ \E il \in FetchResults, failing \in SUBSET Feeds : AwaitResolves(il, failing)
    \/ AwaitRejects

RequiredSettings ==
    Elements(ValidatedSettings)
        \cup {"website.url", "website.feeds.news", "website.feeds.events",
              "videos.url"}

\* C6: if a required setting is absent, loading the configuration throws
\* before any setting is exported: no database client is created, no feed is
\* constructed or pulled, and the server never listens.
C6_FailFast ==
    (phase # "init" /\ \E s \in RequiredSettings : cfg[s] # "set") =>
        /\ phase = "configFailed"
        /\ exported = {}
        /\ ~dbCreated
        /\ constructed = {}
        /\ \A f \in AllFeeds : pull[f] = "idle"
        /\ ~listening

C8_InstantLaunchesInert ==
    /\ dbCreated => "instantLaunches" \in constructed
    /\ pull["instantLaunches"] = "idle"
    /\ sched["instantLaunches"] = "none"
    /\ req.ilOps \subseteq {"getItems"}
    /\ req.ilOps # {} => req.route = "users"
    /\ (req.route = "users" /\ req.status = 200) =>
          req.bodyInstantLaunches = req.ilRead

\* A 200 response of GET /users/:username with more instant launches than
\* the limit.
C8_Witness ==
    /\ req.route = "users"
    /\ req.status = 200
    /\ req.ilOps = {"getItems"}
    /\ Len(req.bodyInstantLaunches) > req.limit

\* C9: GET /healthz always sends exactly one response: 200 when the query
\* returns at least one row, 500 when it rejects or returns no rows; the
\* handler never throws without responding.
C9_HealthzAlwaysResponds ==
    req.route = "healthz" =>
        /\ req.pc # "threw"
        /\ req.sent <= 1
        /\ req.pc = "done" =>
              /\ req.sent = 1
              /\ req.status = IF req.threw = "none" /\ Len(req.rows) >= 1
                              THEN 200 ELSE 500

\* C10: in GET /users/:username no promise the handler started rejects with
\* no handler attached, on any path.
C10_NoUnhandledRejection ==
    req.route = "users" => req.unhandled = "none"

=============================================================================
